---- MODULE Spec2Model ----
(***************************************************************************)
(* The Typesense knowledge store adapter (TypesenseDb) of                  *)
(* src/local_agno/vectordb/typesense/__init__.py, together with the remote *)
(* engine and the embedding capability it talks to.                        *)
(*                                                                         *)
(* Every adapter method is one action.  The engine and the embedder are    *)
(* the environment: each request either gets the engine's regular answer   *)
(* or fails, so an operator named XRuns denotes the SET of runs of method  *)
(* X, one run for each combination of answers to the requests it issues.   *)
(***************************************************************************)
EXTENDS Integers, Sequences, FiniteSets, TLC

(* ---------------------------------------------------------------------- *)
(* Bounds                                                                  *)
(* ---------------------------------------------------------------------- *)
Dimension == 2
MaxBatch == 2
MaxHandles == 2
\* The longest raw hit list handed to the result normalizer on its own.
MaxHits == 2
\* The largest number of keys of a filter mapping.
MaxFilterKeys == 2
\* The largest dimension of a descriptor handed to the schema builder.
MaxDim == 3
\* The number of threads that call the adapter at the same time.
MaxCallers == 2

(* ---------------------------------------------------------------------- *)
(* Values                                                                  *)
(* ---------------------------------------------------------------------- *)
\* Python's None and a present value; an optional is a sequence of length <= 1.
None == << >>
Some(x) == << x >>

\* Texts are sequences of small integers; the empty text is falsy in Python.
EmptyText == << >>
Texts == { <<1>>, <<2>> }

\* A vector of n floats with a 1 at position k.
Vec(n, k) == [i \in 1..n |-> IF i = k THEN 1 ELSE 0]

\* embedder.get_embedding(text) when it succeeds: a vector of the configured
\* dimension that depends on the text.
Embed(text) == Vec(Dimension, text[1])

\* A caller-supplied embedding of another length than the collection's.
OtherLengthVec == Vec(Dimension + 1, 1)

\* The Documents callers pass to insert.
DocPool ==
  { [id |-> "a", content |-> <<1>>,     embedding |-> None],
    [id |-> "b", content |-> <<2>>,     embedding |-> Some(Vec(Dimension, 2))],
    [id |-> "c", content |-> EmptyText, embedding |-> None],
    [id |-> "d", content |-> <<1>>,     embedding |-> Some(OtherLengthVec)],
    [id |-> "a", content |-> <<2>>,     embedding |-> None] }

RECURSIVE SeqsUpTo(_, _)
SeqsUpTo(S, n) ==
  IF n = 0 THEN { << >> }
  ELSE LET shorter == SeqsUpTo(S, n - 1)
       IN  shorter \cup { Append(s, x) : s \in { t \in shorter : Len(t) = n - 1 }, x \in S }

Batches == SeqsUpTo(DocPool, MaxBatch)

\* search(query, limit=5, filters=None)
DefaultLimit == 5
Limits == { 1, DefaultLimit }

\* A filter mapping is a sequence of entries in the mapping's iteration order;
\* an entry holds a scalar (is_list FALSE, one value) or a list of values.
FilterEntry(field, is_list, vals) == [field |-> field, is_list |-> is_list, vals |-> vals]

\* The filters argument: absent, an empty mapping, a mapping with one scalar.
FilterInputs ==
  { None, Some(<< >>), Some(<< FilterEntry("topic", FALSE, << "1" >>) >>) }

\* The mappings build_filter_string is handed on its own: at most
\* MaxFilterKeys keys, each key once, a scalar or a list (also empty) each.
FilterFields == { "a", "b", "c" }
FilterEntries ==
  { FilterEntry(f, FALSE, << v >>) : f \in FilterFields, v \in { "1", "2" } }
  \cup
  { FilterEntry(f, TRUE, vs) : f \in FilterFields,
                              vs \in { << >>, << "2" >>, << "2", "3" >> } }
FilterMappings ==
  { m \in SeqsUpTo(FilterEntries, MaxFilterKeys) :
      \A i, j \in 1..Len(m) : i # j => m[i].field # m[j].field }

(* ---------------------------------------------------------------------- *)
(* Exceptions                                                              *)
(* ---------------------------------------------------------------------- *)
\* What a request to the engine can end with.  "ObjectNotFound",
\* "ObjectAlreadyExists" and "RequestMalformed" are subclasses of
\* TypesenseClientError; "Exception" stands for every error outside that
\* hierarchy (the transport-level errors the client library re-raises once
\* its retries are used up).
IsTypesenseClientError(e) ==
  e \in { "TypesenseClientError", "ObjectNotFound", "ObjectAlreadyExists",
          "RequestMalformed" }

\* The failures any request can end with, whatever the engine's state: an
\* error answer of the engine, or a transport-level error.
Faults == { "TypesenseClientError", "Exception" }

\* One entry of the trace of requests a call issued: the request, the position
\* in the batch of the document it is about (0: none) and how it ended.
Req(req, pos, res) ==
  [req |-> req, pos |-> pos, res |-> res, filter_by |-> None, hits |-> << >>]

\* A query request, with the filter expression it carries (None: no clause).
QueryReq(req, res, filter_by, hits) ==
  [req |-> req, pos |-> 0, res |-> res, filter_by |-> filter_by, hits |-> hits]

(* ---------------------------------------------------------------------- *)
(* The schema payload                                                      *)
(* ---------------------------------------------------------------------- *)
\* class Distance
Distances == { "cosine", "euclidean", "dot_product" }

\* HNSWConfig(): the dataclass with its defaults.
HNSWConfig == [max_elements |-> 1000000, m |-> 16, ef_construction |-> 100, ef |-> 64]

\* An HNSWConfig a caller has tuned.
TunedHNSWConfig == [max_elements |-> 1000, m |-> 8, ef_construction |-> 50, ef |-> 10]

\* create_schema declaring one more than the dimension it was given.
create_schemaOffByOne(name, dimension, distance, hnsw_config, additional_fields) ==
  [ name |-> name,
    enable_nested_fields |-> TRUE,
    fields |-> << [name |-> "id", type |-> "string"],
                  [name |-> "content", type |-> "string"],
                  [name |-> "meta_data", type |-> "object"],
                  [name |-> "embedding", type |-> "float[]",
                   num_dim |-> dimension + 1, vec_dist |-> distance] >> ]

\* create_schema: an HNSWConfig instance is truthy, a list is truthy when it
\* is not empty.
create_schema(name, dimension, distance, hnsw_config, additional_fields) ==
  LET base == [ name |-> "embedding", type |-> "float[]",
                num_dim |-> dimension, vec_dist |-> distance ]
      embedding_field ==
        IF hnsw_config # None
          THEN [ name |-> "embedding", type |-> "float[]",
                 num_dim |-> dimension, vec_dist |-> distance,
                 hnsw_params |-> [ M |-> hnsw_config[1].m,
                                   ef_construction |-> hnsw_config[1].ef_construction ] ]
          ELSE base
  IN
  [ name |-> name,
    enable_nested_fields |-> TRUE,
    fields |-> << [name |-> "id", type |-> "string"],
                  [name |-> "content", type |-> "string"],
                  [name |-> "meta_data", type |-> "object"],
                  embedding_field >>
               \o (IF additional_fields # None THEN additional_fields[1] ELSE << >>) ]

CollectionName == "docs"

\* self.schema, built once in the constructor from self.dimension,
\* self.distance and self.hnsw_config (hnsw_config or HNSWConfig()).
schema == create_schema(CollectionName, Dimension, "cosine", Some(HNSWConfig), None)

\* The descriptors create_schema is handed on its own; the names of the
\* additional fields differ from the four baseline names, as the engine
\* refuses a schema that names a field twice.
Descriptors ==
  [ name : { CollectionName },
    dimension : 1..MaxDim,
    distance : Distances,
    hnsw_config : { None, Some(HNSWConfig), Some(TunedHNSWConfig) },
    additional_fields : { None, Some(<< >>),
                          Some(<< [name |-> "title", type |-> "string"] >>) } ]

(* ---------------------------------------------------------------------- *)
(* The remote engine                                                       *)
(* ---------------------------------------------------------------------- *)
\* The engine's state for the adapter's collection.
NoCollection == [exists |-> FALSE, num_dim |-> 0, docs |-> {}]

\* collections[name].retrieve()
EngineRetrieve(eng) ==
  Faults \cup { IF eng.exists THEN "ok" ELSE "ObjectNotFound" }

\* What a request that changes the engine can end with: a failure before the
\* engine has executed it, its regular answer, or the regular execution with
\* the answer lost on the way back (a timeout), which the client raises as a
\* transport-level error.
Answers(eng, regular) ==
  { [res |-> f, engine |-> eng] : f \in Faults }
  \cup { regular }
  \cup { [res |-> "Exception", engine |-> regular.engine] }

\* collections.create(schema): the answers, each with the engine's next state.
EngineCreateCollection(eng, payload) ==
  Answers(eng,
    IF eng.exists
      THEN [res |-> "ObjectAlreadyExists", engine |-> eng]
      ELSE [res |-> "ok",
            engine |-> [exists |-> TRUE,
                        num_dim |-> LET i == CHOOSE i \in 1..Len(payload.fields) :
                                                payload.fields[i].name = "embedding"
                                    IN  payload.fields[i].num_dim,
                        docs |-> {}]])

\* collections[name].delete()
EngineDeleteCollection(eng) ==
  Answers(eng,
    IF eng.exists
      THEN [res |-> "ok", engine |-> NoCollection]
      ELSE [res |-> "ObjectNotFound", engine |-> eng])

\* collection.documents.create(doc_dict): the engine validates the embedding
\* against the num_dim the collection was created with; documents.create is
\* the create action of the engine (the upsert action is documents.upsert),
\* which refuses an id that is already stored.
EngineCreateDocument(eng, doc_dict) ==
  Answers(eng,
    IF ~eng.exists
      THEN [res |-> "ObjectNotFound", engine |-> eng]
    ELSE IF doc_dict.embedding = None \/ Len(doc_dict.embedding[1]) # eng.num_dim
      THEN [res |-> "RequestMalformed", engine |-> eng]
    ELSE IF \E d \in eng.docs : d.id = doc_dict.id
      THEN [res |-> "ObjectAlreadyExists", engine |-> eng]
    ELSE [res |-> "ok", engine |-> [eng EXCEPT !.docs = @ \cup { doc_dict }]])

(* ---------------------------------------------------------------------- *)
(* Collection lifecycle                                                    *)
(* ---------------------------------------------------------------------- *)
\* TypesenseDb.exists: ret is the returned boolean, exc the escaping exception.
ExistsRuns(eng) ==
  { [ ret |-> (r = "ok"),
      exc |-> IF r = "ok" \/ IsTypesenseClientError(r) THEN "none" ELSE r,
      log |-> << Req("retrieve", 0, r) >> ] : r \in EngineRetrieve(eng) }

\* create with the failure of the create request logged but not raised again.
CreateRunsSwallow(eng) ==
  UNION {
    IF ex.exc # "none"
      THEN { [engine |-> eng, exc |-> ex.exc, log |-> ex.log] }
    ELSE IF ex.ret
      THEN { [engine |-> eng, exc |-> "none", log |-> ex.log] }
    ELSE { [ engine |-> r.engine, exc |-> "none",
             log |-> Append(ex.log, Req("create_collection", 0, r.res)) ]
           : r \in EngineCreateCollection(eng, schema) }
    : ex \in ExistsRuns(eng) }

\* create that sends the create request whatever exists() returned.
CreateRunsAlways(eng) ==
  UNION {
    IF ex.exc # "none"
      THEN { [engine |-> eng, exc |-> ex.exc, log |-> ex.log] }
    ELSE { [ engine |-> r.engine,
             exc |-> IF r.res = "ok" THEN "none" ELSE r.res,
             log |-> Append(ex.log, Req("create_collection", 0, r.res)) ]
           : r \in EngineCreateCollection(eng, schema) }
    : ex \in ExistsRuns(eng) }

\* TypesenseDb.create
CreateRuns(eng) ==
  UNION {
    IF ex.exc # "none"
      THEN { [engine |-> eng, exc |-> ex.exc, log |-> ex.log] }
    ELSE IF ex.ret
      THEN { [engine |-> eng, exc |-> "none", log |-> ex.log] }
    ELSE { [ engine |-> r.engine,
             exc |-> IF r.res = "ok" THEN "none" ELSE r.res,
             log |-> Append(ex.log, Req("create_collection", 0, r.res)) ]
           : r \in EngineCreateCollection(eng, schema) }
    : ex \in ExistsRuns(eng) }

\* TypesenseDb.drop: search is the cached handle self._search.
DropRuns(eng, search) ==
  UNION {
    IF ex.exc # "none"
      THEN { [engine |-> eng, search |-> search, exc |-> ex.exc, log |-> ex.log] }
    ELSE IF ex.ret
      THEN { [ engine |-> r.engine,
               search |-> IF r.res = "ok" THEN None ELSE search,
               exc |-> IF r.res = "ok" THEN "none" ELSE r.res,
               log |-> Append(ex.log, Req("delete_collection", 0, r.res)) ]
             : r \in EngineDeleteCollection(eng) }
    ELSE { [engine |-> eng, search |-> search, exc |-> "none", log |-> ex.log] }
    : ex \in ExistsRuns(eng) }

(* ---------------------------------------------------------------------- *)
(* Ingestion                                                               *)
(* ---------------------------------------------------------------------- *)
\* The dictionary of insert with the embedding cut to the collection's
\* dimension.
DocDictTruncate(doc, emb) ==
  [ id |-> doc.id, content |-> doc.content,
    embedding |-> IF emb # None /\ Len(emb[1]) > Dimension
                    THEN Some(SubSeq(emb[1], 1, Dimension)) ELSE emb,
    meta_data |-> << >> ]

\* The dictionary insert builds for a document whose embedding is emb.
DocDict(doc, emb) ==
  [id |-> doc.id, content |-> doc.content, embedding |-> emb, meta_data |-> << >>]

\* The first loop of insert embedding the content of the batch's first
\* document for every document.
RECURSIVE PrepareFromFirstContent(_, _, _, _)
PrepareFromFirstContent(documents, i, docs_to_insert, log) ==
  IF i > Len(documents)
    THEN { [exc |-> "none", docs_to_insert |-> docs_to_insert, log |-> log] }
  ELSE LET doc == documents[i] IN
    IF doc.embedding = None /\ doc.content # EmptyText
      THEN { [ exc |-> "Exception", docs_to_insert |-> docs_to_insert,
               log |-> Append(log, Req("embed", i, "Exception")) ] }
           \cup
           PrepareFromFirstContent(documents, i + 1,
                       Append(docs_to_insert,
                              DocDict(doc, Some(Embed(documents[1].content)))),
                       Append(log, Req("embed", i, "ok")))
    ELSE IF doc.embedding = None
      THEN { [exc |-> "TypeError", docs_to_insert |-> docs_to_insert, log |-> log] }
    ELSE PrepareFromFirstContent(documents, i + 1,
                     Append(docs_to_insert, DocDict(doc, doc.embedding)), log)

\* The first loop of insert, from position i on: docs_to_insert is built one
\* document at a time and any exception is logged and raised again.
\*   embedding None and content truthy: the embedder is called (it may raise);
\*   embedding still None afterwards: len(embedding) raises TypeError.
RECURSIVE PrepareFrom(_, _, _, _)
PrepareFrom(documents, i, docs_to_insert, log) ==
  IF i > Len(documents)
    THEN { [exc |-> "none", docs_to_insert |-> docs_to_insert, log |-> log] }
  ELSE LET doc == documents[i] IN
    IF doc.embedding = None /\ doc.content # EmptyText
      THEN { [ exc |-> "Exception", docs_to_insert |-> docs_to_insert,
               log |-> Append(log, Req("embed", i, "Exception")) ] }
           \cup
           PrepareFrom(documents, i + 1,
                       Append(docs_to_insert, DocDict(doc, Some(Embed(doc.content)))),
                       Append(log, Req("embed", i, "ok")))
    ELSE IF doc.embedding = None
      THEN { [exc |-> "TypeError", docs_to_insert |-> docs_to_insert, log |-> log] }
    ELSE PrepareFrom(documents, i + 1,
                     Append(docs_to_insert, DocDict(doc, doc.embedding)), log)

\* The second loop of insert leaving the loop at the first store request that
\* fails.
RECURSIVE StoreFromAbort(_, _, _, _, _)
StoreFromAbort(eng, docs_to_insert, i, results, log) ==
  IF i > Len(docs_to_insert)
    THEN { [engine |-> eng, results |-> results, log |-> log] }
  ELSE UNION {
    LET res2 == Append(results, [success |-> (r.res = "ok"),
                                 document |-> docs_to_insert[i].id])
        log2 == Append(log, Req("create_document", i, r.res))
    IN  IF r.res = "ok"
          THEN StoreFromAbort(r.engine, docs_to_insert, i + 1, res2, log2)
          ELSE { [engine |-> r.engine, results |-> res2, log |-> log2] }
    : r \in EngineCreateDocument(eng, docs_to_insert[i]) }

\* The second loop of insert issuing a failed store request a second time.
RECURSIVE StoreFromRetry(_, _, _, _, _)
StoreFromRetry(eng, docs_to_insert, i, results, log) ==
  IF i > Len(docs_to_insert)
    THEN { [engine |-> eng, results |-> results, log |-> log] }
  ELSE UNION {
    IF r.res = "ok"
      THEN StoreFromRetry(r.engine, docs_to_insert, i + 1,
                          Append(results, [success |-> TRUE,
                                           document |-> docs_to_insert[i].id]),
                          Append(log, Req("create_document", i, r.res)))
      ELSE UNION {
        StoreFromRetry(r2.engine, docs_to_insert, i + 1,
                       Append(results, [success |-> (r2.res = "ok"),
                                        document |-> docs_to_insert[i].id]),
                       log \o << Req("create_document", i, r.res),
                                 Req("create_document", i, r2.res) >>)
        : r2 \in EngineCreateDocument(r.engine, docs_to_insert[i]) }
    : r \in EngineCreateDocument(eng, docs_to_insert[i]) }

\* The second loop of insert, from position i on: one store request for each
\* prepared document; an exception is caught and recorded in results.
RECURSIVE StoreFrom(_, _, _, _, _)
StoreFrom(eng, docs_to_insert, i, results, log) ==
  IF i > Len(docs_to_insert)
    THEN { [engine |-> eng, results |-> results, log |-> log] }
  ELSE UNION {
    StoreFrom(r.engine, docs_to_insert, i + 1,
              Append(results, [success |-> (r.res = "ok"),
                               document |-> docs_to_insert[i].id]),
              Append(log, Req("create_document", i, r.res)))
    : r \in EngineCreateDocument(eng, docs_to_insert[i]) }

SearchTypes == { "vector", "keyword", "hybrid" }

\* A run of insert that ends before the store loop.
InsertEnd(eng, exc, log) ==
  [engine |-> eng, exc |-> exc, results |-> << >>, log |-> log]

\* insert without the step that ensures the collection exists.
InsertRunsNoProvision(eng, documents) ==
  IF documents = << >> THEN { InsertEnd(eng, "none", << >>) }
  ELSE UNION {
    IF pr.exc # "none" THEN { InsertEnd(eng, pr.exc, pr.log) }
    ELSE { [ engine |-> st.engine, exc |-> "none", results |-> st.results,
             log |-> pr.log \o st.log ]
           : st \in StoreFrom(eng, pr.docs_to_insert, 1, << >>, << >>) }
    : pr \in PrepareFrom(documents, 1, << >>, << >>) }

\* insert storing the documents prepared so far before it raises the error
\* of the preparation.
InsertRunsStorePrepared(eng, documents) ==
  IF documents = << >> THEN { InsertEnd(eng, "none", << >>) }
  ELSE UNION {
    IF ex.exc # "none" THEN { InsertEnd(eng, ex.exc, ex.log) }
    ELSE UNION {
      IF cr.exc # "none" THEN { InsertEnd(cr.engine, cr.exc, ex.log \o cr.log) }
      ELSE UNION {
        { [ engine |-> st.engine, exc |-> pr.exc, results |-> st.results,
            log |-> ex.log \o cr.log \o pr.log \o st.log ]
          : st \in StoreFrom(cr.engine, pr.docs_to_insert, 1, << >>, << >>) }
        : pr \in PrepareFrom(documents, 1, << >>, << >>) }
      : cr \in IF ex.ret
                 THEN { [engine |-> eng, exc |-> "none", log |-> << >>] }
                 ELSE CreateRuns(eng) }
    : ex \in ExistsRuns(eng) }

\* TypesenseDb.insert
InsertRuns(eng, documents) ==
  IF documents = << >> THEN { InsertEnd(eng, "none", << >>) }
  ELSE UNION {
    IF ex.exc # "none" THEN { InsertEnd(eng, ex.exc, ex.log) }
    ELSE UNION {
      IF cr.exc # "none" THEN { InsertEnd(cr.engine, cr.exc, ex.log \o cr.log) }
      ELSE UNION {
        IF pr.exc # "none"
          THEN { InsertEnd(cr.engine, pr.exc, ex.log \o cr.log \o pr.log) }
        ELSE IF pr.docs_to_insert = << >>
          THEN { InsertEnd(cr.engine, "none", ex.log \o cr.log \o pr.log) }
        ELSE { [ engine |-> st.engine, exc |-> "none", results |-> st.results,
                 log |-> ex.log \o cr.log \o pr.log \o st.log ]
               : st \in StoreFrom(cr.engine, pr.docs_to_insert, 1, << >>, << >>) }
        : pr \in PrepareFrom(documents, 1, << >>, << >>) }
      : cr \in IF ex.ret
                 THEN { [engine |-> eng, exc |-> "none", log |-> << >>] }
                 ELSE CreateRuns(eng) }
    : ex \in ExistsRuns(eng) }

\* upsert that drops the collection's document of the same id first.
UpsertRunsReplace(eng, documents) ==
  InsertRuns([eng EXCEPT !.docs =
                { d \in @ : \A i \in 1..Len(documents) : d.id # documents[i].id }],
             documents)

\* TypesenseDb.upsert
UpsertRuns(eng, documents) == InsertRuns(eng, documents)

(* ---------------------------------------------------------------------- *)
(* Search                                                                  *)
(* ---------------------------------------------------------------------- *)
\* sep.join(parts) on strings held as sequences of tokens.
RECURSIVE Join(_, _)
Join(parts, sep) ==
  IF parts = << >> THEN << >>
  ELSE IF Len(parts) = 1 THEN parts[1]
  ELSE parts[1] \o << sep >> \o Join(Tail(parts), sep)

\* build_filter_string joining the predicates with "or".
build_filter_stringOr(filters) ==
  LET part(e) ==
        IF e.is_list
          THEN << e.field, ":=[" >>
               \o Join([i \in 1..Len(e.vals) |-> << e.vals[i] >>], ",") \o << "]" >>
          ELSE << e.field, ":=", e.vals[1] >>
  IN  Join([i \in 1..Len(filters) |-> part(filters[i])], " || ")

\* build_filter_string(filters), for a mapping.
build_filter_string(filters) ==
  LET part(e) ==
        IF e.is_list
          THEN << e.field, ":=[" >>
               \o Join([i \in 1..Len(e.vals) |-> << e.vals[i] >>], ",") \o << "]" >>
          ELSE << e.field, ":=", e.vals[1] >>
  IN  Join([i \in 1..Len(filters) |-> part(filters[i])], " && ")

\* filter_by set whenever a mapping is given, even an empty one.
FilterByNotNone(filters) ==
  IF filters # None THEN Some(build_filter_string(filters[1])) ELSE None

\* The filter_by a search request carries: `if filters:` is false for None
\* and for the empty mapping.
FilterBy(filters) ==
  IF filters # None /\ filters[1] # << >>
    THEN Some(build_filter_string(filters[1]))
    ELSE None

\* A JSON value of a response that is an object or null.  An object is held
\* with the set of its keys; the field of a missing key holds a filler.
RawObject(keys, id, content, embedding, meta_data) ==
  [ null |-> FALSE, keys |-> keys, id |-> id, content |-> content,
    embedding |-> embedding, meta_data |-> meta_data ]
EmptyObject == RawObject({}, "", EmptyText, None, None)
RawNull == [EmptyObject EXCEPT !.null = TRUE]

\* The stored document as the engine returns it inside a hit.
RawStored(d) ==
  RawObject({"id", "content", "embedding", "meta_data"},
            d.id, d.content, d.embedding, d.meta_data)

\* The hit lists the engine may answer a query with: any ranking of at most
\* limit of the stored documents; with_distance: the hits carry a distance.
HitLists(eng, limit, with_distance) ==
  { [i \in 1..Len(s) |->
       [document |-> RawStored(s[i]),
        vector_distance |-> IF with_distance THEN Some(i) ELSE None]]
    : s \in { t \in SeqsUpTo(eng.docs, Cardinality(eng.docs)) :
                /\ Len(t) <= limit
                /\ \A i, j \in 1..Len(t) : i # j => t[i] # t[j] } }

\* The documents a raw hit may hold when the normalizer is handed any hit
\* list: well-formed, without id, without content, without any key (also what
\* hit.get('document', {}) yields for a hit without document), and null.
RawDocPool ==
  { RawStored([id |-> "a", content |-> <<1>>,
               embedding |-> Some(Vec(Dimension, 1)), meta_data |-> << >>]),
    RawObject({"content"}, "", <<2>>, None, None),
    RawObject({"id"}, "b", EmptyText, None, None),
    EmptyObject,
    RawNull }

RawHitPool ==
  { [document |-> d, vector_distance |-> v] : d \in RawDocPool, v \in { None, Some(1) } }

RawHitLists == SeqsUpTo(RawHitPool, MaxHits)

\* client.multi_search.perform(search_request): a search of a collection that
\* is missing is answered in the body, with an entry that has no hits.
EngineMultiSearch(eng, limit) ==
  { [res |-> f, hits |-> << >>] : f \in Faults }
  \cup
  ( IF eng.exists
      THEN { [res |-> "ok", hits |-> h] : h \in HitLists(eng, limit, TRUE) }
      ELSE { [res |-> "ok", hits |-> << >>] } )

\* collection.documents.search(search_params)
EngineDocumentsSearch(eng, limit) ==
  { [res |-> f, hits |-> << >>] : f \in Faults }
  \cup
  ( IF eng.exists
      THEN { [res |-> "ok", hits |-> h] : h \in HitLists(eng, limit, FALSE) }
      ELSE { [res |-> "ObjectNotFound", hits |-> << >>] } )

\* doc.get(key): None when the key is missing.
DictGet(doc, key) == IF key \in doc.keys THEN Some(doc[key]) ELSE None

\* Document(...) built from one hit inside the try block; the attribute
\* access on a document that is null raises, a missing key does not.
HitDocument(hit) ==
  LET doc == hit.document IN
  IF doc.null THEN [exc |-> "AttributeError"]
  ELSE [ exc |-> "none",
         document |->
           [ id |-> DictGet(doc, "id"),
             content |-> IF "content" \in doc.keys THEN doc.content ELSE EmptyText,
             meta_data |-> [ vector_distance |-> hit.vector_distance,
                             keys |-> doc.keys \ { "id", "content" },
                             embedding |-> doc.embedding,
                             meta_data |-> doc.meta_data ],
             embedding |-> IF doc.embedding # None /\ doc.embedding[1] # << >>
                             THEN doc.embedding ELSE None ] ]

\* The loop of _process_results putting each Document in front of the list.
RECURSIVE ProcessFromPrepend(_, _, _)
ProcessFromPrepend(hits, i, documents) ==
  IF i > Len(hits) THEN documents
  ELSE LET r == HitDocument(hits[i]) IN
       ProcessFromPrepend(hits, i + 1,
                          IF r.exc = "none" THEN << r.document >> \o documents
                          ELSE documents)

\* The loop of _process_results from hit i on: a hit whose Document raised
\* is skipped.
RECURSIVE ProcessFrom(_, _, _)
ProcessFrom(hits, i, documents) ==
  IF i > Len(hits) THEN documents
  ELSE LET r == HitDocument(hits[i]) IN
       ProcessFrom(hits, i + 1,
                   IF r.exc = "none" THEN Append(documents, r.document) ELSE documents)

\* TypesenseSearch._process_results
_process_results(hits) == ProcessFrom(hits, 1, << >>)

\* TypesenseSearch.vector_search and TypesenseSearch.hybrid_search: the whole
\* body is inside try/except Exception, which returns [].
HandlerMultiSearchRuns(eng, limit, filters) ==
  { [ docs |-> IF r.res = "ok" THEN _process_results(r.hits) ELSE << >>,
      exc |-> "none",
      log |-> << QueryReq("multi_search", r.res, FilterBy(filters), r.hits) >> ]
    : r \in EngineMultiSearch(eng, limit) }

\* TypesenseSearch.keyword_search: no try/except of its own.
HandlerKeywordSearchRuns(eng, limit, filters) ==
  { [ docs |-> IF r.res = "ok" THEN _process_results(r.hits) ELSE << >>,
      exc |-> IF r.res = "ok" THEN "none" ELSE r.res,
      log |-> << QueryReq("documents_search", r.res, FilterBy(filters), r.hits) >> ]
    : r \in EngineDocumentsSearch(eng, limit) }

\* The search_handler property: the cached handle, or a new one after the
\* collection has been provisioned; n handles were constructed before.
SearchHandlerRuns(eng, search, n) ==
  LET end(e, exc, log) ==
        [engine |-> e, search |-> search, handles |-> n, exc |-> exc, log |-> log]
  IN
  IF search # None THEN { end(eng, "none", << >>) }
  ELSE UNION {
    IF ex.exc # "none" THEN { end(eng, ex.exc, ex.log) }
    ELSE {
      IF cr.exc # "none" THEN end(cr.engine, cr.exc, ex.log \o cr.log)
      ELSE [ engine |-> cr.engine, search |-> Some(n + 1), handles |-> n + 1,
             exc |-> "none", log |-> ex.log \o cr.log ]
      : cr \in IF ex.ret
                 THEN { [engine |-> eng, exc |-> "none", log |-> << >>] }
                 ELSE CreateRuns(eng) }
    : ex \in ExistsRuns(eng) }

\* A run of an adapter search method.
SearchEnd(h, docs, exc, log) ==
  [ engine |-> h.engine, search |-> h.search, handles |-> h.handles,
    docs |-> docs, exc |-> exc, log |-> log ]

\* The embedder call on the query; the methods that embed do so first.
QueryEmbedRuns(embeds) ==
  IF embeds
    THEN { [exc |-> "Exception", log |-> << Req("embed", 0, "Exception") >>],
           [exc |-> "none", log |-> << Req("embed", 0, "ok") >>] }
    ELSE { [exc |-> "none", log |-> << >>] }

\* TypesenseDb.vector_search, keyword_search and hybrid_search: embed the
\* query (not for keyword), get the handler, run the handler's method; the
\* whole body is inside try/except Exception, which returns [].
AdapterSearchRuns(search_type, eng, search, n, limit, filters) ==
  LET start == [engine |-> eng, search |-> search, handles |-> n] IN
  UNION {
    IF em.exc # "none" THEN { SearchEnd(start, << >>, "none", em.log) }
    ELSE UNION {
      IF h.exc # "none" THEN { SearchEnd(h, << >>, "none", em.log \o h.log) }
      ELSE { SearchEnd(h, IF q.exc = "none" THEN q.docs ELSE << >>, "none",
                       em.log \o h.log \o q.log)
             : q \in IF search_type = "keyword"
                       THEN HandlerKeywordSearchRuns(h.engine, limit, filters)
                       ELSE HandlerMultiSearchRuns(h.engine, limit, filters) }
      : h \in SearchHandlerRuns(eng, search, n) }
    : em \in QueryEmbedRuns(search_type # "keyword") }

\* search with no try/except on the way from the handler to the caller.
SearchRunsPropagating(search_type, eng, search, n, limit, filters) ==
  LET start == [engine |-> eng, search |-> search, handles |-> n] IN
  UNION {
    IF em.exc # "none" THEN { SearchEnd(start, << >>, em.exc, em.log) }
    ELSE UNION {
      IF h.exc # "none" THEN { SearchEnd(h, << >>, h.exc, em.log \o h.log) }
      ELSE { SearchEnd(h, q.docs, q.exc, em.log \o h.log \o q.log)
             : q \in IF search_type = "keyword"
                       THEN HandlerKeywordSearchRuns(h.engine, limit, filters)
                       ELSE HandlerMultiSearchRuns(h.engine, limit, filters) }
      : h \in SearchHandlerRuns(eng, search, n) }
    : em \in QueryEmbedRuns(search_type # "keyword") }

\* TypesenseDb.search: dispatch on self.search_type, inside try/except
\* Exception, which returns [].
SearchRuns(search_type, eng, search, n, limit, filters) ==
  { IF r.exc = "none" THEN r ELSE [r EXCEPT !.docs = << >>, !.exc = "none"]
    : r \in AdapterSearchRuns(search_type, eng, search, n, limit, filters) }

(* ---------------------------------------------------------------------- *)
(* State                                                                   *)
(* ---------------------------------------------------------------------- *)
VARIABLES
  engine,     \* the collection in the remote engine
  _search,    \* self._search: None or Some(handle)
  handles,    \* how many search handles have been constructed so far
  search_type,\* self.search_type, set by the constructor
  last,       \* the call the caller has just made and how it ended
  threads     \* the calls in progress when several threads share the adapter

vars == << engine, _search, handles, search_type, last, threads >>

\* The threads sharing the adapter, and a thread that is not inside a call.
Callers == 1..MaxCallers
NotCalling ==
  [ pc |-> "idle", op |-> "none", exc |-> "none", got |-> None, log |-> << >> ]

\* No call has been made, or its outcome has been taken by the caller.
Idle ==
  [ op |-> "none", exc |-> "none", ret |-> FALSE, docs |-> << >>,
    batch |-> << >>, results |-> << >>, log |-> << >>,
    pre |-> NoCollection, pre_search |-> None, filters |-> None ]

Call(op, run) ==
  [ Idle EXCEPT !.op = op, !.exc = run.exc, !.log = run.log,
                !.pre = engine, !.pre_search = _search ]

Init ==
  /\ engine = NoCollection
  /\ _search = None
  /\ handles = 0
  /\ search_type \in SearchTypes
  /\ last = Idle
  /\ threads = [t \in Callers |-> NotCalling]

\* exists()
Exists ==
  /\ last.op = "none"
  /\ \E run \in ExistsRuns(engine) :
       last' = [ Call("exists", run) EXCEPT !.ret = run.ret ]
  /\ UNCHANGED << engine, _search, handles, search_type, threads >>

\* create()
Create ==
  /\ last.op = "none"
  /\ \E run \in CreateRuns(engine) :
       /\ engine' = run.engine
       /\ last' = Call("create", run)
  /\ UNCHANGED << _search, handles, search_type, threads >>

\* drop()
Drop ==
  /\ last.op = "none"
  /\ \E run \in DropRuns(engine, _search) :
       /\ engine' = run.engine
       /\ _search' = run.search
       /\ last' = Call("drop", run)
  /\ UNCHANGED << handles, search_type, threads >>

\* insert(documents)
Insert ==
  /\ last.op = "none"
  /\ \E documents \in Batches : \E run \in InsertRuns(engine, documents) :
       /\ engine' = run.engine
       /\ last' = [ Call("insert", run) EXCEPT !.batch = documents,
                                                !.results = run.results ]
  /\ UNCHANGED << _search, handles, search_type, threads >>

\* upsert(documents)
Upsert ==
  /\ last.op = "none"
  /\ \E documents \in Batches : \E run \in UpsertRuns(engine, documents) :
       /\ engine' = run.engine
       /\ last' = [ Call("upsert", run) EXCEPT !.batch = documents,
                                                !.results = run.results ]
  /\ UNCHANGED << _search, handles, search_type, threads >>

\* search(query, limit, filters); the query text only reaches the embedder
\* and the engine, whose answers are drawn inside SearchRuns.
Search ==
  /\ last.op = "none"
  /\ _search # None \/ handles < MaxHandles
  /\ \E query \in Texts, limit \in Limits, filters \in FilterInputs :
       \E run \in SearchRuns(search_type, engine, _search, handles, limit, filters) :
         /\ engine' = run.engine
         /\ _search' = run.search
         /\ handles' = run.handles
         /\ last' = [ Call("search", run) EXCEPT !.docs = run.docs,
                                             !.filters = filters ]
  /\ UNCHANGED << search_type, threads >>

\* The caller takes the outcome of its call and is ready for the next one.
Return ==
  /\ last.op # "none"
  /\ last' = Idle
  /\ UNCHANGED << engine, _search, handles, search_type, threads >>

\* The lifecycle of one adapter.  upsert only delegates to insert, so the
\* caller of this specification stores with insert; upsert is called next to
\* insert in SpecUpsert.
Next == Exists \/ Create \/ Drop \/ Insert \/ Search \/ Return

Spec == Init /\ [][Next]_vars

\* A caller that stores batches with insert and with upsert.
NextUpsert == Insert \/ Upsert \/ Return

SpecUpsert == Init /\ [][NextUpsert]_vars

(* ---------------------------------------------------------------------- *)
(* The search handler, called on its own                                   *)
(* ---------------------------------------------------------------------- *)
\* The operation the caller sees for a method of TypesenseSearch.
HandlerOp(method) ==
  CASE method = "vector" -> "handler_vector_search"
    [] method = "keyword" -> "handler_keyword_search"
    [] method = "hybrid" -> "handler_hybrid_search"

HandlerOps == { HandlerOp(method) : method \in SearchTypes }

\* TypesenseSearch(collection, client).vector_search / keyword_search /
\* hybrid_search, called by the layer above with a query it has prepared.
HandlerSearch ==
  /\ last.op = "none"
  /\ \E method \in SearchTypes, limit \in Limits, filters \in FilterInputs :
       \E run \in IF method = "keyword"
                    THEN HandlerKeywordSearchRuns(engine, limit, filters)
                    ELSE HandlerMultiSearchRuns(engine, limit, filters) :
         last' = [ Call(HandlerOp(method), run) EXCEPT !.docs = run.docs,
                                                       !.filters = filters ]
  /\ UNCHANGED << engine, _search, handles, search_type, threads >>

\* A caller that fills the collection and queries it through the handler.
NextHandler == Insert \/ HandlerSearch \/ Return

SpecHandler == Init /\ [][NextHandler]_vars

(* ---------------------------------------------------------------------- *)
(* Threads sharing one adapter                                             *)
(* ---------------------------------------------------------------------- *)
\* A step is one request to the engine or one access to self._search: a
\* thread can be suspended between any two of them.
Goto(t, pc) == [threads EXCEPT ![t].pc = pc]
Logged(t, pc, entry) ==
  [threads EXCEPT ![t].pc = pc, ![t].log = Append(@, entry)]
Raised(t, exc, entry) ==
  [threads EXCEPT ![t].pc = "done", ![t].exc = exc, ![t].log = Append(@, entry)]

\* A thread calls create() or reads the search_handler property.
Begin(t) ==
  /\ threads[t].pc = "idle"
  /\ \E op \in { "create", "search_handler" } :
       threads' = [threads EXCEPT ![t].op = op,
                     ![t].pc = IF op = "create" THEN "create_probe" ELSE "handler_check"]
  /\ UNCHANGED << engine, _search, handles, search_type, last >>

\* search_handler: `if self._search is None`, else `return self._search`.
HandlerCheck(t) ==
  /\ threads[t].pc = "handler_check"
  /\ threads' = IF _search = None
                  THEN Goto(t, "handler_probe")
                  ELSE [threads EXCEPT ![t].pc = "done", ![t].got = _search]
  /\ UNCHANGED << engine, _search, handles, search_type, last >>

\* search_handler: `if not self.exists()`; a false answer enters create().
HandlerProbe(t) ==
  /\ threads[t].pc = "handler_probe"
  /\ \E r \in EngineRetrieve(engine) :
       LET entry == Req("retrieve", 0, r) IN
       threads' = IF r = "ok" THEN Logged(t, "handler_store", entry)
                  ELSE IF IsTypesenseClientError(r) THEN Logged(t, "create_probe", entry)
                  ELSE Raised(t, r, entry)
  /\ UNCHANGED << engine, _search, handles, search_type, last >>

\* create: `if not self.exists()`; the caller of create is done when it
\* exists, search_handler goes on to construct the handle.
CreateProbe(t) ==
  /\ threads[t].pc = "create_probe"
  /\ \E r \in EngineRetrieve(engine) :
       LET entry == Req("retrieve", 0, r) IN
       threads' = IF r = "ok"
                    THEN Logged(t, IF threads[t].op = "create" THEN "done"
                                   ELSE "handler_store", entry)
                  ELSE IF IsTypesenseClientError(r) THEN Logged(t, "create_request", entry)
                  ELSE Raised(t, r, entry)
  /\ UNCHANGED << engine, _search, handles, search_type, last >>

\* create: self.client.collections.create(self.schema); a failure is raised
\* again by create and by search_handler.
CreateRequest(t) ==
  /\ threads[t].pc = "create_request"
  /\ \E r \in EngineCreateCollection(engine, schema) :
       LET entry == Req("create_collection", 0, r.res) IN
       /\ engine' = r.engine
       /\ threads' = IF r.res = "ok"
                       THEN Logged(t, IF threads[t].op = "create" THEN "done"
                                      ELSE "handler_store", entry)
                       ELSE Raised(t, r.res, entry)
  /\ UNCHANGED << _search, handles, search_type, last >>

\* search_handler: self._search = TypesenseSearch(collection, self.client)
HandlerStore(t) ==
  /\ threads[t].pc = "handler_store"
  /\ handles' = handles + 1
  /\ _search' = Some(handles + 1)
  /\ threads' = Goto(t, "handler_return")
  /\ UNCHANGED << engine, search_type, last >>

\* search_handler: return self._search
HandlerReturn(t) ==
  /\ threads[t].pc = "handler_return"
  /\ threads' = [threads EXCEPT ![t].pc = "done", ![t].got = _search]
  /\ UNCHANGED << engine, _search, handles, search_type, last >>

NextConcurrent ==
  \E t \in Callers :
    \/ Begin(t)
    \/ HandlerCheck(t)
    \/ HandlerProbe(t)
    \/ CreateProbe(t)
    \/ CreateRequest(t)
    \/ HandlerStore(t)
    \/ HandlerReturn(t)

SpecConcurrent == Init /\ [][NextConcurrent]_vars

(* ---------------------------------------------------------------------- *)
(* The pure functions, called on their own                                 *)
(* ---------------------------------------------------------------------- *)
\* A call of a function of the package: its argument and what it returned.
PureCall(op, arg, out) == [ Idle EXCEPT !.op = op, !.batch = arg, !.docs = out ]

\* _process_results on any raw hit list
ProcessResults ==
  /\ last.op = "none"
  /\ \E hits \in RawHitLists :
       last' = PureCall("_process_results", hits, _process_results(hits))
  /\ UNCHANGED << engine, _search, handles, search_type, threads >>

\* build_filter_string on any mapping
BuildFilterString ==
  /\ last.op = "none"
  /\ \E filters \in FilterMappings :
       last' = PureCall("build_filter_string", filters, build_filter_string(filters))
  /\ UNCHANGED << engine, _search, handles, search_type, threads >>

\* create_schema on any descriptor
CreateSchema ==
  /\ last.op = "none"
  /\ \E d \in Descriptors :
       last' = PureCall("create_schema", d,
                        create_schema(d.name, d.dimension, d.distance,
                                      d.hnsw_config, d.additional_fields))
  /\ UNCHANGED << engine, _search, handles, search_type, threads >>

\* The functions called on their own, and create(), which submits the
\* payload the constructor built.
NextPure == ProcessResults \/ BuildFilterString \/ CreateSchema \/ Create \/ Return

SpecPure == Init /\ [][NextPure]_vars

(* ---------------------------------------------------------------------- *)
(* Reading the trace of a call                                             *)
(* ---------------------------------------------------------------------- *)
\* The entries of the last call's trace for request req.
Entries(req) == SelectSeq(last.log, LAMBDA e : e.req = req)

\* Some request req of the last call did not succeed.
Failed(req) == \E i \in 1..Len(last.log) :
                 last.log[i].req = req /\ last.log[i].res # "ok"

\* The positions of the batch whose embedder call failed.
EmbedFailures == { last.log[i].pos : i \in { j \in 1..Len(last.log) :
                     last.log[j].req = "embed" /\ last.log[j].res # "ok" } }

\* No request of the last call ended with an error or transport failure
\* (a not-found answer to the existence probe is a regular answer).
Healthy == \A i \in 1..Len(last.log) : last.log[i].res \notin Faults

\* The document with this id is stored in the collection.
Stored(id) == \E d \in engine.docs : d.id = id

\* The store request of position i succeeded and no later one of the same
\* call wrote the same id.
LastWriter(i) ==
  /\ i <= Len(last.results)
  /\ last.results[i].success
  /\ \A j \in (i + 1)..Len(last.results) :
       ~(last.results[j].success /\ last.batch[j].id = last.batch[i].id)

\* A document insert can store: it has an embedding of the collection's
\* dimension, or it has none and a content to compute one from.
Storable(doc) ==
  IF doc.embedding = None THEN doc.content # EmptyText
  ELSE Len(doc.embedding[1]) = Dimension

(* ---------------------------------------------------------------------- *)
(* Claims                                                                  *)
(* ---------------------------------------------------------------------- *)

\* C1: when the embedding step fails for exactly one document of a batch
\* (and nothing else fails), every other document of the batch is stored
\* after insert and the failing document's id is in the ledger as a failure.
C1_PartialFailureIsolation ==
  ( /\ last.op = "insert"
    /\ Cardinality(EmbedFailures) = 1
    /\ \A i \in 1..Len(last.log) :
         last.log[i].req # "embed" => last.log[i].res \notin Faults
    /\ \A i \in 1..Len(last.batch) : Storable(last.batch[i]) )
  => \A k \in EmbedFailures :
       /\ \A j \in 1..Len(last.batch) :
            last.batch[j].id # last.batch[k].id => Stored(last.batch[j].id)
       /\ \E i \in 1..Len(last.results) :
            last.results[i] = [success |-> FALSE, document |-> last.batch[k].id]

HandlerFailed ==
  \/ Failed("create_collection")
  \/ \E i \in 1..Len(last.log) :
       last.log[i].req = "retrieve" /\ last.log[i].res = "Exception"

\* The query request of the last call failed.
QueryFailed == Failed("multi_search") \/ Failed("documents_search")

\* C3: in every mode, search never raises, and a failure of the embedding
\* step, of the handle construction or of the engine query makes it return
\* the empty sequence.
C3_SearchNeverRaises ==
  last.op = "search"
  => /\ last.exc = "none"
     /\ (Failed("embed") \/ HandlerFailed \/ QueryFailed) => last.docs = << >>

\* A keyword search whose query failed at the engine, over a collection that
\* holds documents, returned the empty sequence.
C3_Witness ==
  /\ last.op = "search"
  /\ search_type = "keyword"
  /\ Failed("documents_search")
  /\ engine.docs # {}
  /\ last.exc = "none"
  /\ last.docs = << >>

C6_DropMissingIsNoop ==
  (last.op = "drop" /\ ~last.pre.exists)
  => /\ last.exc = "none"
     /\ Entries("delete_collection") = << >>
     /\ engine = last.pre

\* C7: after a drop that returns normally no search handle is cached,
\* whatever the existence probe reported.
C7_DropUnsetsHandle ==
  (last.op = "drop" /\ last.exc = "none") => _search = None

\* C8: exists never raises; it returns true exactly when the engine returned
\* the collection, and false for not-found and every other failure.
C8_ExistsNeverRaises ==
  last.op = "exists"
  => /\ last.exc = "none"
     /\ last.ret = (last.log[1].res = "ok")

\* C9: a document with no embedding and empty content is not sent to the
\* embedder; when no request fails, insert returns normally, that document
\* is stored with a null embedding and the rest of the batch is stored too.
C9_EmptyContentStoredWithNullEmbedding ==
  \A i \in 1..Len(last.batch) :
    ( /\ last.op = "insert"
      /\ last.batch[i].embedding = None
      /\ last.batch[i].content = EmptyText )
    => /\ \A k \in 1..Len(last.log) :
            ~(last.log[k].req = "embed" /\ last.log[k].pos = i)
       /\ Healthy
            => /\ last.exc = "none"
               /\ \E d \in engine.docs :
                    d.id = last.batch[i].id /\ d.embedding = None
               /\ \A j \in 1..Len(last.batch) :
                    Storable(last.batch[j]) => Stored(last.batch[j].id)

C11_StoredEmbeddingHasDimension ==
  /\ \A d \in engine.docs :
       d.embedding # None /\ Len(d.embedding[1]) = engine.num_dim
  /\ engine.exists => engine.num_dim = Dimension
  /\ \A doc \in DocPool :
       (doc.embedding # None /\ Len(doc.embedding[1]) # Dimension)
       => ~Stored(doc.id)
  /\ last.op \in { "insert", "upsert" }
       => \A i \in 1..Len(last.batch) :
            ( /\ last.batch[i].embedding # None
              /\ Len(last.batch[i].embedding[1]) # Dimension
              /\ i <= Len(last.results) )
            => /\ ~last.results[i].success
               /\ Entries("create_document")[i].res # "ok"

\* A batch with a document whose embedding is too long was inserted: the
\* engine refused that document and stored the other one.
C11_Witness ==
  /\ last.op = "insert"
  /\ last.exc = "none"
  /\ \E i, j \in 1..Len(last.results) :
       /\ last.batch[i].embedding # None
       /\ Len(last.batch[i].embedding[1]) = Dimension + 1
       /\ Entries("create_document")[i].res = "RequestMalformed"
       /\ ~last.results[i].success
       /\ last.results[j].success
       /\ Stored(last.batch[j].id)
       /\ ~Stored(last.batch[i].id)

C13_StoreIdempotentById ==
  last.op \in { "insert", "upsert" }
  => \A i \in 1..Len(last.results) :
       ( /\ \E d \in last.pre.docs : d.id = last.batch[i].id
         /\ Storable(last.batch[i])
         /\ Entries("create_document")[i].res \notin Faults
         /\ \A j \in 1..Len(last.batch) :
              j # i => last.batch[j].id # last.batch[i].id )
       => /\ last.results[i].success
          /\ Cardinality({ d \in engine.docs : d.id = last.batch[i].id }) = 1
          /\ \A d \in engine.docs :
               d.id = last.batch[i].id => d.content = last.batch[i].content

\* The index in the last call's trace of the first request req (0: none).
FirstIndex(req) ==
  IF \E i \in 1..Len(last.log) : last.log[i].req = req
    THEN CHOOSE i \in 1..Len(last.log) :
           /\ last.log[i].req = req
           /\ \A j \in 1..(i - 1) : last.log[j].req # req
    ELSE 0

\* No request to the engine failed during the last call.
EngineHealthy ==
  \A i \in 1..Len(last.log) :
    last.log[i].req # "embed" => last.log[i].res \notin Faults

\* The last call sent a query to the engine.
Queried == Entries("multi_search") # << >> \/ Entries("documents_search") # << >>

\* C14: a search issued while the collection is absent leaves the collection
\* existing whenever no engine request failed.
C14_SearchProvisions ==
  (last.op = "search" /\ ~last.pre.exists /\ EngineHealthy) => engine.exists

\* C15: insert of a non-empty batch issues no store request while the
\* collection is absent; when the collection was absent before the call, a
\* successful create request precedes every store request.
C15_InsertProvisionsFirst ==
  (last.op = "insert" /\ Entries("create_document") # << >>)
  => /\ last.batch # << >>
     /\ engine.exists
     /\ \A i \in 1..Len(last.log) :
          last.log[i].req = "create_document"
          => /\ last.log[i].res # "ObjectNotFound"
             /\ ~last.pre.exists
                  => /\ FirstIndex("create_collection") > 0
                     /\ FirstIndex("create_collection") < i
                     /\ last.log[FirstIndex("create_collection")].res = "ok"

\* An insert found the collection absent, created it and stored a document.
C15_Witness ==
  /\ last.op = "insert"
  /\ ~last.pre.exists
  /\ Entries("create_collection") # << >>
  /\ \E i \in 1..Len(last.results) :
       last.results[i].success /\ Stored(last.batch[i].id)

\* C16: after a drop that returns normally on an existing collection, the
\* collection is absent from the engine, so that exists returns false.
C16_DropThenAbsent ==
  (last.op = "drop" /\ last.exc = "none" /\ last.pre.exists) => ~engine.exists

\* The raw hit carries an id.
CarriesId(hit) == ~hit.document.null /\ "id" \in hit.document.keys

\* C17: the normalizer returns exactly one Document per raw hit that carries
\* an id, in hit order, and none for a hit without id.
C17_SkipsHitsWithoutId ==
  last.op = "_process_results"
  => /\ last.exc = "none"
     /\ Len(last.docs) = Cardinality({ i \in 1..Len(last.batch) : CarriesId(last.batch[i]) })
     /\ \A i \in 1..Len(last.docs) : last.docs[i].id # None

\* The request carries no filter expression.
NoFilterClause(entry) == entry.filter_by = None

\* C18: a search whose filters argument is absent or an empty mapping sends,
\* in each of the three strategies, requests without filter expression, and
\* handling the argument raises nothing.
C18_NoFilterForEmptyMapping ==
  (last.op = "search" /\ last.filters \in { None, Some(<< >>) })
  => /\ last.exc = "none"
     /\ \A i \in 1..Len(last.log) : NoFilterClause(last.log[i])

\* A search with an empty mapping reached the engine with a query.
C18_Witness ==
  /\ last.op = "search"
  /\ last.filters = Some(<< >>)
  /\ Queried
  /\ \A i \in 1..Len(last.log) : NoFilterClause(last.log[i])

\* The pieces of the token sequence s between the occurrences of sep.
RECURSIVE Split(_, _)
Split(s, sep) ==
  IF \A i \in 1..Len(s) : s[i] # sep THEN << s >>
  ELSE LET k == CHOOSE k \in 1..Len(s) :
                  s[k] = sep /\ \A j \in 1..(k - 1) : s[j] # sep
       IN  << SubSeq(s, 1, k - 1) >> \o Split(SubSeq(s, k + 1, Len(s)), sep)

\* The expression p is the predicate of entry e: field:=value for a scalar,
\* field:=[v1,...,vn] for a list.
IsPredicateOf(p, e) ==
  IF e.is_list
    THEN /\ Len(p) >= 3
         /\ p[1] = e.field
         /\ p[2] = ":=["
         /\ p[Len(p)] = "]"
         /\ LET inner == SubSeq(p, 3, Len(p) - 1) IN
            IF e.vals = << >> THEN inner = << >>
            ELSE Split(inner, ",") = [j \in 1..Len(e.vals) |-> << e.vals[j] >>]
    ELSE p = << e.field, ":=", e.vals[1] >>

\* C19: for a non-empty mapping the compiled expression splits at " && "
\* into exactly one predicate per key, in the mapping's iteration order:
\* equality for a scalar, membership over the listed values for a list.
C19_ConjunctionInOrder ==
  (last.op = "build_filter_string" /\ last.batch # << >>)
  => LET parts == Split(last.docs, " && ") IN
     /\ Len(parts) = Len(last.batch)
     /\ \A i \in 1..Len(parts) : IsPredicateOf(parts[i], last.batch[i])

\* A mapping with a scalar followed by a list of two values was compiled.
C19_Witness ==
  /\ last.op = "build_filter_string"
  /\ Len(last.batch) = 2
  /\ ~last.batch[1].is_list
  /\ last.batch[2].is_list /\ Len(last.batch[2].vals) = 2
  /\ Len(Split(last.docs, " && ")) = 2

\* The positions of the payload's fields named embedding.
EmbeddingFields(payload) ==
  { i \in 1..Len(payload.fields) : payload.fields[i].name = "embedding" }

C21_HandlerCatches ==
  last.op \in HandlerOps
  => /\ last.exc = "none"
     /\ QueryFailed => last.docs = << >>

\* No request of any thread was made to fail by the engine or the transport.
NoThreadFault ==
  \A t \in Callers : \A i \in 1..Len(threads[t].log) :
    threads[t].log[i].res \notin Faults

\* Every thread has made a call and the call has ended.
AllDone == \A t \in Callers : threads[t].pc = "done"

\* C22: when the calls of all threads (create, or first use of the search
\* handler) have ended and no request was made to fail, no call ended with
\* an error and the collection exists.
C22_RaceHarmless ==
  (AllDone /\ NoThreadFault)
  => /\ \A t \in Callers : threads[t].exc = "none"
     /\ engine.exists

\* C23: a stored search handle is never replaced by another one (no thread
\* drops here), whatever the interleaving of the threads' first uses.
C23_ConstructOrFetch ==
  [][ (NoThreadFault' /\ _search # None) => _search' = _search ]_vars

\* a can be obtained from b by removing elements.
RECURSIVE IsSubsequence(_, _)
IsSubsequence(a, b) ==
  IF a = << >> THEN TRUE
  ELSE IF b = << >> THEN FALSE
  ELSE IF Head(a) = Head(b) THEN IsSubsequence(Tail(a), Tail(b))
  ELSE IsSubsequence(a, Tail(b))

\* The ids of the last search's Documents, and of the hits the engine
\* answered its query with (no hits when no query was answered).
ReturnedIds == [i \in 1..Len(last.docs) |-> last.docs[i].id]
QueryEntries ==
  SelectSeq(last.log, LAMBDA e : e.req \in { "multi_search", "documents_search" })
EngineHitIds ==
  IF QueryEntries = << >> THEN << >>
  ELSE [i \in 1..Len(QueryEntries[1].hits) |->
          Some(QueryEntries[1].hits[i].document.id)]

\* C24: in every strategy the Documents a search returns are, in the same
\* order, among the hits the engine answered the query with.
C24_NeverResorts ==
  last.op = "search"
  => /\ Len(QueryEntries) <= 1
     /\ IsSubsequence(ReturnedIds, EngineHitIds)

\* A search returned two Documents, ranked as the engine ranked its hits.
C24_Witness ==
  /\ last.op = "search"
  /\ Len(last.docs) = 2
  /\ Len(EngineHitIds) = 2
  /\ last.docs[1].id = EngineHitIds[1]
  /\ last.docs[2].id = EngineHitIds[2]
  /\ last.docs[1].id # last.docs[2].id

\* The batch positions of the last call's store requests, in the order in
\* which they were issued.
StorePositions ==
  [i \in 1..Len(Entries("create_document")) |-> Entries("create_document")[i].pos]

\* C25 (as claimed): insert issues exactly one store request for each
\* document of the batch, in batch order.
C25_OneStorePerDocument ==
  last.op = "insert" => StorePositions = [i \in 1..Len(last.batch) |-> i]

\* C25 (amended): an insert that returns normally has issued exactly one
\* store request for each document of the batch, in batch order, failed
\* requests included; an insert that raises has issued none.
C25_OneStorePerDocumentAmended ==
  last.op = "insert"
  => /\ last.exc = "none" => StorePositions = [i \in 1..Len(last.batch) |-> i]
     /\ last.exc # "none" => StorePositions = << >>

\* An insert of two documents whose first store request failed went on to
\* the second document without issuing the first request again.
C25_Witness ==
  /\ last.op = "insert"
  /\ last.exc = "none"
  /\ StorePositions = << 1, 2 >>
  /\ Entries("create_document")[1].res \in Faults
  /\ Entries("create_document")[2].res = "ok"

\* The embedding field of the payload the schema builder returned.
EmbeddingField ==
  last.docs.fields[CHOOSE i \in EmbeddingFields(last.docs) : TRUE]

\* C26: built with tuning parameters, the embedding field carries a tuning
\* block holding max elements, node degree and both candidate-list sizes
\* with the supplied values; built without, it carries no tuning block.
C26_TuningCarried ==
  last.op = "create_schema"
  => IF last.batch.hnsw_config = None
       THEN "hnsw_params" \notin DOMAIN EmbeddingField
       ELSE /\ "hnsw_params" \in DOMAIN EmbeddingField
            /\ LET params == EmbeddingField.hnsw_params
                   given == last.batch.hnsw_config[1]
               IN  /\ { "max_elements", "M", "ef_construction", "ef" } \subseteq DOMAIN params
                   /\ params.max_elements = given.max_elements
                   /\ params.M = given.m
                   /\ params.ef_construction = given.ef_construction
                   /\ params.ef = given.ef

\* The preparation of the last insert raised: an embedding call failed, or
\* a document without content and embedding made len(embedding) raise.
PreparationRaised ==
  /\ last.op = "insert"
  /\ last.exc # "none"
  /\ Failed("embed") \/ last.exc = "TypeError"

\* C27: in the trace of an insert every embedding call precedes every store
\* request, and an insert whose preparation raised has issued no store
\* request and left the stored documents as they were.
C27_PrepareBeforeStore ==
  last.op = "insert"
  => /\ \A i, j \in 1..Len(last.log) :
          (last.log[i].req = "embed" /\ last.log[j].req = "create_document") => i < j
     /\ PreparationRaised
          => /\ Entries("create_document") = << >>
             /\ engine.docs = last.pre.docs

\* The first document of a batch was prepared with a successful embedding
\* call, the second one's embedding call failed, and insert raised.
C27_Witness ==
  /\ PreparationRaised
  /\ Len(last.batch) = 2
  /\ Len(Entries("embed")) = 2
  /\ Entries("embed")[1].res = "ok"
  /\ Entries("embed")[2].res # "ok"
  /\ engine.exists
  /\ ~Stored(last.batch[1].id)

\* C28: whenever a search handle is cached, the collection exists in the
\* engine.
C28_HandleImpliesCollection == _search # None => engine.exists

====
